---- MODULE Spec2Model ----
(***************************************************************************)
(* Model of the translator application: the debounced translation          *)
(* orchestration of src/App.tsx (edits, debounce timer, translation        *)
(* requests, history persistence) and its speech playback (handleSpeak     *)
(* with generateTTS / decodeAudioData of src/services/gemini.ts).          *)
(*                                                                         *)
(* React state is modelled by one variable per useState / useRef cell.     *)
(* A handler that awaits is split at its suspension points; whatever it    *)
(* read from its render's closure travels with the pending call.           *)
(***************************************************************************)
EXTENDS Integers, Sequences, FiniteSets, TLC

VARIABLES
    user,              \* useState user (NoUser = null)
    sourceText, targetText,
    sourceCountry, sourceLang, targetCountry, targetLang,
    loading, detectedLang, notes, alternatives,
    history,           \* useState history: sequence of HistoryItem, head first
    feedback,
    feedbackTimers,    \* pending setTimeout(() => setFeedback(''), ...) callbacks
    isSpeaking,
    audioContextRef,   \* 0 = null, else the number of the AudioContext held
    debounceTimerRef,  \* 0 = null, else the id returned by the last setTimeout
    timers,            \* pending timeouts of the debounce effect: [id, st]
    cleanupArmed,      \* the last run of the debounce effect returned a cleanup
    inflight,          \* handleTranslate calls suspended at an await: [id, st, phase, row]
                       \* and stale: a later request had been issued when the
                       \* translation arrived
    nextReq,           \* number of handleTranslate calls that reached translateText, plus 1
    db,                \* the backend table "history": rows in creation order
    nextRow,           \* next id the backend assigns
    fetches,           \* fetchHistory calls suspended at their await
    speaks,            \* handleSpeak calls suspended at "await generateTTS"
    sources,           \* started AudioBufferSourceNodes that have not ended
    contexts,          \* number of AudioContext objects constructed so far
    events,            \* number of user events and identity changes handled so far
    logoutPending,     \* handleLogout is suspended at "await signOut()"
    speakCalls,        \* number of handleSpeak calls accepted so far
    maxApplied,        \* largest id of a request whose result was applied to the display
    issuedSinceEdit,   \* ids of the requests issued since the debounce effect last ran
    lastSpeak,         \* outcome of the most recent handleSpeak call
    toggles,           \* toggleFavorite calls suspended at their await
    favFlips,          \* ids of the rows toggled an odd number of times so far
    clears,            \* clearAllHistory calls suspended at their await
    responseText,      \* response.text handed to parseGeminiResponse
    parseResult,       \* what parseGeminiResponse returned or threw
    pcmData,           \* the bytes handed to decodeAudioData
    pcmChannels,       \* its numChannels argument
    audioBuffer,       \* what decodeAudioData returned or threw
    contextRate        \* sample rate of the AudioContext in audioContextRef, 0 without one

editVars == <<sourceText, sourceCountry, sourceLang, targetCountry, targetLang>>
displayVars == <<targetText, detectedLang, notes, alternatives>>
timerVars == <<debounceTimerRef, timers, cleanupArmed>>
backendVars == <<db, nextRow>>
speakVars == <<isSpeaking, audioContextRef, speaks, sources, contexts, speakCalls, lastSpeak,
               contextRate>>
orchestratorVars == <<loading, history, timerVars, inflight, nextReq, backendVars, fetches,
                      logoutPending, maxApplied, issuedSinceEdit>>
favVars == <<toggles, favFlips, clears>>
serviceVars == <<responseText, parseResult, pcmData, pcmChannels, audioBuffer>>
auxVars == <<favVars, serviceVars>>
vars == <<user, editVars, displayVars, loading, history, feedback, feedbackTimers, timerVars,
          inflight, nextReq, backendVars, fetches, speakVars, events,
          logoutPending,
          maxApplied, issuedSinceEdit, auxVars>>

----------------------------------------------------------------------------
(* Bounds of the model *)

MaxEvents == 3
MaxTimers == 3
MaxSpeaks == 2

(* Program constants *)

HISTORY_LIMIT == 50

NoUser == "none"
Users == {"u1", "u2"}

TypedTexts == {"", " ", "hello"}
SourceLangs == {"auto", "es"}
TargetLangs == {"en", "es"}
SourceCountries == {"", "ES"}
TargetCountries == {"US", "ES"}

MsgTranslateError == "Error translating text."
MsgSpeaking == "Speaking..."
MsgSpeechError == "Error generating speech."
MsgCopied == "Copied!"
MsgHistoryCleared == "History Cleared"

----------------------------------------------------------------------------
(* Pure helpers *)

\* String.prototype.trim on the texts of the model
Trim(s) == IF s = " " THEN "" ELSE s

\* JavaScript truthiness of a string
Truthy(s) == s # ""

\* Array.prototype.slice(0, n)
Slice(s, n) == IF Len(s) <= n THEN s ELSE SubSeq(s, 1, n)

\* the remote translation capability: the text in the target language
Translate(text, lang) == IF lang = "es" THEN "hola" ELSE "hello"

Detect(text) == IF text = "hello" THEN "en" ELSE "es"

AlternativesOf(text, lang) == IF lang = "es" THEN <<>> ELSE <<"hi">>

\* the TranslationResult the remote capability returns for a request
RemoteResult(st) ==
    [translation |-> Translate(st.sourceText, st.targetLang),
     detected_language |-> Detect(st.sourceText),
     target_language |-> st.targetLang,
     notes |-> "note",
     alternatives |-> AlternativesOf(st.sourceText, st.targetLang)]

\* the values a render's closure captures for the debounce effect
EditState ==
    [sourceText |-> sourceText, sourceLang |-> sourceLang,
     sourceCountry |-> sourceCountry, targetLang |-> targetLang,
     targetCountry |-> targetCountry, user |-> user]

Display ==
    [targetText |-> targetText, detectedLang |-> detectedLang,
     notes |-> notes, alternatives |-> alternatives]

ClearedDisplay ==
    [targetText |-> "", detectedLang |-> "", notes |-> "", alternatives |-> <<>>]

TimerIds == {t.id : t \in timers}

\* setTimeout returns an id that no pending timer and no stored handle has
FreshTimerId == CHOOSE i \in 1..MaxTimers :
    /\ i \notin TimerIds \cup {debounceTimerRef}
    /\ \A j \in 1..(i - 1) : j \in TimerIds \cup {debounceTimerRef}

CanSetTimer == \E i \in 1..MaxTimers : i \notin TimerIds \cup {debounceTimerRef}

\* a clearTimeout that cancels nothing
ClearTimeoutRefNoop(ts) == ts

\* clearTimeout(debounceTimerRef.current)
ClearTimeoutRef(ts) == {t \in ts : t.id # debounceTimerRef}

\* an effect that returns no cleanup
EffectCleanupOmitted(ts) == ts

\* the cleanup returned by the previous run of the debounce effect
EffectCleanup(ts) == IF cleanupArmed THEN ClearTimeoutRef(ts) ELSE ts

\* a row of the backend table as a HistoryItem
MapRow(row) ==
    [id |-> row.id, timestamp |-> row.created_at, sourceText |-> row.source_text,
     translation |-> row.translation_text, sourceLang |-> row.source_lang,
     targetLang |-> row.target_lang, is_favorite |-> row.is_favorite]

RECURSIVE MapRows(_)
MapRows(rows) ==
    IF rows = <<>> THEN <<>> ELSE <<MapRow(Head(rows))>> \o MapRows(Tail(rows))

RECURSIVE Reverse(_)
Reverse(s) == IF s = <<>> THEN <<>> ELSE Reverse(Tail(s)) \o <<Head(s)>>

RECURSIVE SelectRows(_, _)
SelectRows(rows, u) ==
    IF rows = <<>> THEN <<>>
    ELSE IF Head(rows).user_id = u
         THEN <<Head(rows)>> \o SelectRows(Tail(rows), u)
         ELSE SelectRows(Tail(rows), u)

\* select('*').order('created_at', descending).limit(50), scoped to the identity
SelectHistory(rows, u) == Slice(Reverse(SelectRows(rows, u)), HISTORY_LIMIT)

\* an updater that forgets the slice
PrependHistoryUnbounded(prev, item) == <<item>> \o prev

\* the updater of setHistory in handleTranslate
PrependHistory(prev, item) == Slice(<<item>> \o prev, HISTORY_LIMIT)

----------------------------------------------------------------------------
(* The debounced translation effect and the handlers that feed it *)

SetDisplay(d) ==
    /\ targetText' = d.targetText
    /\ detectedLang' = d.detectedLang
    /\ notes' = d.notes
    /\ alternatives' = d.alternatives

SetEditState(new) ==
    /\ sourceText' = new.sourceText
    /\ sourceLang' = new.sourceLang
    /\ sourceCountry' = new.sourceCountry
    /\ targetLang' = new.targetLang
    /\ targetCountry' = new.targetCountry

\* the timers left pending once the effect has run for the dependencies `new`
TimersAfterEffect(new) ==
    IF Trim(new.sourceText) = "" \/ new.user = NoUser
    THEN EffectCleanup(timers)
    ELSE ClearTimeoutRef(EffectCleanup(timers)) \cup {[id |-> FreshTimerId, st |-> new]}

\* useEffect(..., [sourceText, sourceLang, sourceCountry, targetLang, targetCountry, user]):
\* `new` are the dependencies of the render the handler caused, `d` the display
\* the handler left.  The effect runs only when a dependency changed.
DebouncedTranslationEffect(new, d) ==
    IF new = EditState
    THEN /\ SetDisplay(d)
         /\ UNCHANGED <<timerVars, issuedSinceEdit>>
    ELSE /\ timers' = TimersAfterEffect(new)
         /\ issuedSinceEdit' = {}
         /\ IF Trim(new.sourceText) = "" \/ new.user = NoUser
            THEN /\ SetDisplay(ClearedDisplay)
                 /\ cleanupArmed' = FALSE
                 /\ UNCHANGED debounceTimerRef
            ELSE /\ SetDisplay(d)
                 /\ cleanupArmed' = TRUE
                 /\ debounceTimerRef' = FreshTimerId

\* a user interface event of the translator screen, which is rendered only
\* while a user is present
UiEvent(new, d) ==
    /\ user # NoUser
    /\ events < MaxEvents
    /\ CanSetTimer
    /\ events' = events + 1
    /\ SetEditState(new)
    /\ DebouncedTranslationEffect(new, d)
    /\ UNCHANGED <<auxVars, user, loading, history, feedback, inflight, nextReq, backendVars,
                   fetches, speakVars, feedbackTimers, logoutPending, maxApplied>>

SetSourceText(v) ==
    /\ v # sourceText
    /\ UiEvent([EditState EXCEPT !.sourceText = v], Display)

SetSourceLang(v) ==
    /\ v # sourceLang
    /\ UiEvent([EditState EXCEPT !.sourceLang = v], Display)

SetSourceCountry(v) ==
    /\ v # sourceCountry
    /\ UiEvent([EditState EXCEPT !.sourceCountry = v], Display)

SetTargetLang(v) ==
    /\ v # targetLang
    /\ UiEvent([EditState EXCEPT !.targetLang = v], Display)

SetTargetCountry(v) ==
    /\ v # targetCountry
    /\ UiEvent([EditState EXCEPT !.targetCountry = v], Display)

HandleSwap ==
    UiEvent([sourceText |-> targetText, sourceLang |-> targetLang,
             sourceCountry |-> targetCountry, targetLang |-> sourceLang,
             targetCountry |-> sourceCountry, user |-> user],
            [Display EXCEPT !.targetText = sourceText])

ClearInput ==
    UiEvent([EditState EXCEPT !.sourceText = ""], ClearedDisplay)

\* the "Use" button of an alternative
UseAlternative(i) ==
    /\ i \in 1..Len(alternatives)
    /\ UiEvent(EditState, [Display EXCEPT !.targetText = alternatives[i]])

\* a click on an entry of the history panel
SelectHistoryItem(i) ==
    /\ i \in 1..Len(history)
    /\ UiEvent([EditState EXCEPT !.sourceText = history[i].sourceText],
               [Display EXCEPT !.targetText = history[i].translation])

----------------------------------------------------------------------------
(* handleTranslate *)

\* the call reaches "await translateText": the guard and setLoading(true)
IssueRequest(st) ==
    /\ loading' = TRUE
    /\ inflight' = inflight \cup {[id |-> nextReq, st |-> st, phase |-> "translate", row |-> 0,
                                    stale |-> FALSE]}
    /\ nextReq' = nextReq + 1
    /\ issuedSinceEdit' = issuedSinceEdit \cup {nextReq}

HandleTranslate(st) ==
    IF Trim(st.sourceText) = "" \/ st.user = NoUser
    THEN UNCHANGED <<loading, inflight, nextReq, issuedSinceEdit>>
    ELSE IssueRequest(st)

\* the debounce timeout fires, 500 ms after it was set
TimerFire(t) ==
    /\ t \in timers
    /\ timers' = timers \ {t}
    /\ HandleTranslate(t.st)
    /\ UNCHANGED <<auxVars, user, editVars, displayVars, history, feedback, debounceTimerRef,
                   cleanupArmed, backendVars, fetches, speakVars, feedbackTimers, events,
                   logoutPending, maxApplied>>

Max(a, b) == IF a >= b THEN a ELSE b

\* translateText resolved: the result is shown and the insert is sent
TranslateResolve(r) ==
    /\ r \in inflight
    /\ r.phase = "translate"
    /\ SetDisplay([targetText |-> RemoteResult(r.st).translation,
                   detectedLang |-> RemoteResult(r.st).detected_language,
                   notes |-> RemoteResult(r.st).notes,
                   alternatives |-> RemoteResult(r.st).alternatives])
    /\ inflight' = (inflight \ {r}) \cup
                   {[r EXCEPT !.phase = "insert", !.stale = (r.id # nextReq - 1)]}
    /\ maxApplied' = Max(maxApplied, r.id)
    /\ UNCHANGED <<auxVars, user, editVars, loading, history, feedback, timerVars, nextReq,
                   backendVars, fetches, speakVars, feedbackTimers, events, logoutPending,
                   issuedSinceEdit>>

\* a catch block that only logs
TranslateRejectSilent(r) ==
    /\ r \in inflight
    /\ r.phase = "translate"
    /\ loading' = FALSE
    /\ inflight' = inflight \ {r}
    /\ UNCHANGED <<auxVars, user, editVars, displayVars, history, feedback, timerVars, nextReq,
                   backendVars, fetches, speakVars, feedbackTimers, events, logoutPending,
                   maxApplied, issuedSinceEdit>>

\* translateText rejected (missing key, remote failure, unparsable response)
TranslateReject(r) ==
    /\ r \in inflight
    /\ r.phase = "translate"
    /\ feedback' = MsgTranslateError
    /\ loading' = FALSE
    /\ inflight' = inflight \ {r}
    /\ UNCHANGED <<auxVars, user, editVars, displayVars, history, timerVars, nextReq,
                   backendVars, fetches, speakVars, feedbackTimers, events, logoutPending,
                   maxApplied, issuedSinceEdit>>

NewRow(r) ==
    [id |-> nextRow, created_at |-> nextRow, user_id |-> r.st.user,
     source_text |-> r.st.sourceText,
     translation_text |-> RemoteResult(r.st).translation,
     source_lang |-> RemoteResult(r.st).detected_language,
     target_lang |-> RemoteResult(r.st).target_language,
     is_favorite |-> FALSE]

\* the backend executes the insert and assigns the row its id
InsertExec(r) ==
    /\ r \in inflight
    /\ r.phase = "insert"
    /\ db' = Append(db, NewRow(r))
    /\ nextRow' = nextRow + 1
    /\ inflight' = (inflight \ {r}) \cup {[r EXCEPT !.phase = "inserted", !.row = nextRow]}
    /\ UNCHANGED <<auxVars, user, editVars, displayVars, loading, history, feedback, timerVars,
                   nextReq, fetches, speakVars, feedbackTimers, events, logoutPending,
                   maxApplied, issuedSinceEdit>>

\* an item built from the source text on screen when the insert returns
NewHistoryItemCurrentText(r) ==
    [id |-> r.row, timestamp |-> r.row, sourceText |-> sourceText,
     translation |-> RemoteResult(r.st).translation,
     sourceLang |-> RemoteResult(r.st).detected_language,
     targetLang |-> RemoteResult(r.st).target_language,
     is_favorite |-> FALSE]

\* the item handleTranslate builds from data[0] and its own closure
NewHistoryItem(r) ==
    [id |-> r.row, timestamp |-> r.row, sourceText |-> r.st.sourceText,
     translation |-> RemoteResult(r.st).translation,
     sourceLang |-> RemoteResult(r.st).detected_language,
     targetLang |-> RemoteResult(r.st).target_language,
     is_favorite |-> FALSE]

\* the insert response arrives with the row: the entry is prepended
InsertResolve(r) ==
    /\ r \in inflight
    /\ r.phase = "inserted"
    /\ history' = PrependHistory(history, NewHistoryItem(r))
    /\ loading' = FALSE
    /\ inflight' = inflight \ {r}
    /\ UNCHANGED <<auxVars, user, editVars, displayVars, feedback, timerVars, nextReq,
                   backendVars, fetches, speakVars, feedbackTimers, events, logoutPending,
                   maxApplied, issuedSinceEdit>>

\* an error return that skips the finally block
InsertErrorKeepsLoading(r) ==
    /\ r \in inflight
    /\ r.phase = "insert"
    /\ inflight' = inflight \ {r}
    /\ UNCHANGED <<auxVars, user, editVars, displayVars, loading, history, feedback, timerVars,
                   nextReq, backendVars, fetches, speakVars, feedbackTimers, events,
                   logoutPending, maxApplied, issuedSinceEdit>>

\* the insert returns {error}: nothing is appended
InsertError(r) ==
    /\ r \in inflight
    /\ r.phase = "insert"
    /\ loading' = FALSE
    /\ inflight' = inflight \ {r}
    /\ UNCHANGED <<auxVars, user, editVars, displayVars, history, feedback, timerVars, nextReq,
                   backendVars, fetches, speakVars, feedbackTimers, events, logoutPending,
                   maxApplied, issuedSinceEdit>>

\* the insert call throws: the catch block of handleTranslate runs
InsertThrow(r) ==
    /\ r \in inflight
    /\ r.phase = "insert"
    /\ feedback' = MsgTranslateError
    /\ loading' = FALSE
    /\ inflight' = inflight \ {r}
    /\ UNCHANGED <<auxVars, user, editVars, displayVars, history, timerVars, nextReq,
                   backendVars, fetches, speakVars, feedbackTimers, events, logoutPending,
                   maxApplied, issuedSinceEdit>>

----------------------------------------------------------------------------
(* Identity changes and fetchHistory *)

\* the effect on [user]: fetchHistory() for a user, setHistory([]) for none
UserEffect(u) ==
    IF u # NoUser
    THEN /\ fetches' = fetches \cup {[id |-> events + 1, user |-> u,
                                       phase |-> "sent", rows |-> <<>>]}
         /\ UNCHANGED history
    ELSE /\ history' = <<>>
         /\ UNCHANGED fetches

\* onAuthStateChange delivers another identity: setUser, then both effects
SetUser(u) ==
    /\ u # user
    /\ events < MaxEvents
    /\ CanSetTimer
    /\ events' = events + 1
    /\ user' = u
    /\ UserEffect(u)
    /\ DebouncedTranslationEffect([EditState EXCEPT !.user = u], Display)

AuthStateChange(u) ==
    /\ SetUser(u)
    /\ UNCHANGED <<auxVars, editVars, loading, feedback, inflight, nextReq, backendVars,
                   speakVars, feedbackTimers, logoutPending, maxApplied>>

\* handleLogout up to the end of "await supabase.auth.signOut()", which
\* delivers the signed-out identity
HandleLogout ==
    /\ user # NoUser
    /\ ~logoutPending
    /\ SetUser(NoUser)
    /\ logoutPending' = TRUE
    /\ UNCHANGED <<auxVars, editVars, loading, feedback, inflight, nextReq, backendVars,
                   speakVars, feedbackTimers, maxApplied>>

\* handleLogout after the await: setSourceText(''), setTargetText('')
LogoutResume ==
    /\ logoutPending
    /\ CanSetTimer
    /\ logoutPending' = FALSE
    /\ SetEditState([EditState EXCEPT !.sourceText = ""])
    /\ DebouncedTranslationEffect([EditState EXCEPT !.sourceText = ""],
                                  [Display EXCEPT !.targetText = ""])
    /\ UNCHANGED <<auxVars, user, loading, history, feedback, inflight, nextReq, backendVars,
                   fetches, speakVars, feedbackTimers, events, maxApplied>>

\* the backend executes the select of fetchHistory
FetchExec(f) ==
    /\ f \in fetches
    /\ f.phase = "sent"
    /\ fetches' = (fetches \ {f}) \cup
                  {[f EXCEPT !.phase = "done", !.rows = SelectHistory(db, f.user)]}
    /\ UNCHANGED <<auxVars, user, editVars, displayVars, loading, history, feedback, timerVars,
                   inflight, nextReq, backendVars, speakVars, feedbackTimers, events,
                   logoutPending, maxApplied, issuedSinceEdit>>

\* the rows arrive: setHistory(mappedData)
FetchResolve(f) ==
    /\ f \in fetches
    /\ f.phase = "done"
    /\ history' = MapRows(f.rows)
    /\ fetches' = fetches \ {f}
    /\ UNCHANGED <<auxVars, user, editVars, displayVars, loading, feedback, timerVars,
                   inflight, nextReq, backendVars, speakVars, feedbackTimers, events,
                   logoutPending, maxApplied, issuedSinceEdit>>

\* the select fails: the error is logged and nothing changes
FetchError(f) ==
    /\ f \in fetches
    /\ f.phase = "sent"
    /\ fetches' = fetches \ {f}
    /\ UNCHANGED <<auxVars, user, editVars, displayVars, loading, history, feedback, timerVars,
                   inflight, nextReq, backendVars, speakVars, feedbackTimers, events,
                   logoutPending, maxApplied, issuedSinceEdit>>

----------------------------------------------------------------------------
(* Specification of the orchestrator and the history *)

InitApp ==
    /\ user = NoUser
    /\ sourceText = "" /\ targetText = ""
    /\ sourceCountry = "" /\ sourceLang = "auto"
    /\ targetCountry = "US" /\ targetLang = "en"
    /\ loading = FALSE /\ detectedLang = "" /\ notes = "" /\ alternatives = <<>>
    /\ history = <<>>
    /\ feedback = ""
    /\ feedbackTimers = 0
    /\ isSpeaking = FALSE
    /\ audioContextRef = 0
    /\ contextRate = 0
    /\ debounceTimerRef = 0
    /\ timers = {}
    /\ cleanupArmed = FALSE
    /\ inflight = {}
    /\ nextReq = 1
    /\ fetches = {}
    /\ speaks = {}
    /\ sources = {}
    /\ contexts = 0
    /\ events = 0
    /\ logoutPending = FALSE
    /\ speakCalls = 0
    /\ maxApplied = 0
    /\ issuedSinceEdit = {}
    /\ lastSpeak = "none"

\* no favorite toggle is pending
InitFav ==
    /\ toggles = {}
    /\ favFlips = {}
    /\ clears = {}

\* a JSON value: a string, or an object with a set of members
NullValue == [kind |-> "null", members |-> {}]
StringValue == [kind |-> "string", members |-> {}]
ObjectValue(ms) == [kind |-> "object", members |-> ms]

\* parseGeminiResponse has not been called
NotParsed == [status |-> "none", value |-> NullValue, error |-> ""]

\* decodeAudioData has not been called
NotDecoded == [status |-> "none", channels |-> <<>>, error |-> ""]

InitParser ==
    /\ responseText = <<>>
    /\ parseResult = NotParsed

InitDecoder ==
    /\ pcmData = <<>>
    /\ pcmChannels = 1
    /\ audioBuffer = NotDecoded

\* the services have not been called
InitServices ==
    /\ InitParser
    /\ InitDecoder

Init ==
    /\ InitApp
    /\ InitFav
    /\ InitServices
    /\ db = <<>>
    /\ nextRow = 1

Next ==
    \/ \E v \in TypedTexts : SetSourceText(v)
    \/ \E v \in SourceLangs : SetSourceLang(v)
    \/ \E v \in SourceCountries : SetSourceCountry(v)
    \/ \E v \in TargetLangs : SetTargetLang(v)
    \/ \E v \in TargetCountries : SetTargetCountry(v)
    \/ HandleSwap
    \/ ClearInput
    \/ \E i \in 1..Len(alternatives) : UseAlternative(i)
    \/ \E i \in 1..Len(history) : SelectHistoryItem(i)
    \/ \E t \in timers : TimerFire(t)
    \/ \E r \in inflight : TranslateResolve(r)
    \/ \E r \in inflight : TranslateReject(r)
    \/ \E r \in inflight : InsertExec(r)
    \/ \E r \in inflight : InsertResolve(r)
    \/ \E r \in inflight : InsertError(r)
    \/ \E r \in inflight : InsertThrow(r)
    \/ \E u \in Users \cup {NoUser} : AuthStateChange(u)
    \/ HandleLogout
    \/ LogoutResume
    \/ \E f \in fetches : FetchExec(f)
    \/ \E f \in fetches : FetchResolve(f)
    \/ \E f \in fetches : FetchError(f)

Spec == Init /\ [][Next]_vars

----------------------------------------------------------------------------
(* Speech: handleSpeak, generateTTS, decodeAudioData *)

SAMPLE_RATE == 24000

\* the byte payloads the TTS capability may return (base64-decoded)
AudioPayloads == {<<0, 128>>, <<255, 127, 1, 0>>, <<7>>, <<1, 2, 3>>}

\* new Int16Array(data.buffer) throws a RangeError unless the byte length is
\* even; createBuffer rejects a length of zero frames
DecodeThrows(bytes, numChannels) ==
    \/ Len(bytes) % 2 # 0
    \/ (Len(bytes) \div 2) \div numChannels = 0

\* a guard that does not look at the speaking flag
SpeakRejectedEmptyOnly(text) == ~Truthy(text)

\* the guard of handleSpeak
SpeakRejected(text) == ~Truthy(text) \/ isSpeaking

\* a handler that raises the notice before it looks at its guard
RejectSpeakAfterNotice(text) ==
    /\ lastSpeak' = IF Truthy(text) THEN "rejected_busy" ELSE "rejected_empty"
    /\ feedback' = MsgSpeaking
    /\ UNCHANGED <<isSpeaking, audioContextRef, contextRate, contexts, speaks>>

\* the early return of handleSpeak
RejectSpeak(text) ==
    /\ lastSpeak' = IF Truthy(text) THEN "rejected_busy" ELSE "rejected_empty"
    /\ UNCHANGED <<isSpeaking, feedback, audioContextRef, contextRate, contexts, speaks>>

\* a catch block that forgets setIsSpeaking(false)
SpeakCatchKeepsFlag ==
    /\ feedback' = MsgSpeechError
    /\ lastSpeak' = "failed"
    /\ UNCHANGED isSpeaking

\* the catch block of handleSpeak
SpeakCatch ==
    /\ isSpeaking' = FALSE
    /\ feedback' = MsgSpeechError
    /\ lastSpeak' = "failed"

\* a handler that constructs an AudioContext on every call
HandleSpeakNewContext(text, ctxOk) ==
    /\ user # NoUser
    /\ speakCalls < MaxSpeaks
    /\ speakCalls' = speakCalls + 1
    /\ IF SpeakRejected(text)
       THEN RejectSpeak(text)
       ELSE IF ~ctxOk
       THEN /\ SpeakCatch
            /\ UNCHANGED <<audioContextRef, contextRate, contexts, speaks>>
       ELSE /\ lastSpeak' = IF audioContextRef = 0 THEN "accepted" ELSE "accepted_reuse"
            /\ isSpeaking' = TRUE
            /\ feedback' = MsgSpeaking
            /\ audioContextRef' = contexts + 1
            /\ contexts' = contexts + 1
            /\ contextRate' = SAMPLE_RATE
            /\ speaks' = speaks \cup {[id |-> speakCalls + 1, text |-> text]}
    /\ UNCHANGED <<auxVars, user, editVars, displayVars, orchestratorVars, sources,
                   feedbackTimers, events>>

\* handleSpeak(text) up to "await generateTTS(text)"; ctxOk: the AudioContext
\* constructor, if it has to run, returns instead of throwing
HandleSpeak(text, ctxOk) ==
    /\ user # NoUser
    /\ speakCalls < MaxSpeaks
    /\ speakCalls' = speakCalls + 1
    /\ IF SpeakRejected(text)
       THEN RejectSpeak(text)
       ELSE IF audioContextRef = 0 /\ ~ctxOk
       THEN /\ SpeakCatch
            /\ UNCHANGED <<audioContextRef, contextRate, contexts, speaks>>
       ELSE /\ lastSpeak' = IF audioContextRef = 0 THEN "accepted" ELSE "accepted_reuse"
            /\ isSpeaking' = TRUE
            /\ feedback' = MsgSpeaking
            /\ audioContextRef' = IF audioContextRef = 0 THEN contexts + 1 ELSE audioContextRef
            /\ contexts' = IF audioContextRef = 0 THEN contexts + 1 ELSE contexts
            /\ contextRate' = IF audioContextRef = 0 THEN SAMPLE_RATE ELSE contextRate
            /\ speaks' = speaks \cup {[id |-> speakCalls + 1, text |-> text]}
    /\ UNCHANGED <<auxVars, user, editVars, displayVars, orchestratorVars, sources,
                   feedbackTimers, events>>

\* generateTTS resolved with bytes: decode, create the source, start it
TtsResolve(s, bytes, startOk) ==
    /\ s \in speaks
    /\ speaks' = speaks \ {s}
    /\ IF DecodeThrows(bytes, 1) \/ ~startOk
       THEN /\ SpeakCatch
            /\ UNCHANGED sources
       ELSE /\ sources' = sources \cup {s.id}
            /\ UNCHANGED <<isSpeaking, feedback, lastSpeak>>
    /\ UNCHANGED <<auxVars, user, editVars, displayVars, orchestratorVars, audioContextRef, contextRate,
                   contexts, speakCalls, feedbackTimers, events>>

\* generateTTS rejected: the remote call failed or returned no audio
TtsReject(s) ==
    /\ s \in speaks
    /\ speaks' = speaks \ {s}
    /\ SpeakCatch
    /\ UNCHANGED <<auxVars, user, editVars, displayVars, orchestratorVars, audioContextRef, contextRate,
                   contexts, speakCalls, sources, feedbackTimers, events>>

\* an onended handler that clears the notice but not the speaking flag
PlaybackEndedKeepsFlag(src) ==
    /\ src \in sources
    /\ sources' = sources \ {src}
    /\ feedback' = ""
    /\ lastSpeak' = "ended"
    /\ UNCHANGED <<auxVars, user, editVars, displayVars, orchestratorVars, audioContextRef, contextRate,
                   contexts, speakCalls, speaks, feedbackTimers, events, isSpeaking>>

\* source.onended
PlaybackEnded(src) ==
    /\ src \in sources
    /\ sources' = sources \ {src}
    /\ isSpeaking' = FALSE
    /\ feedback' = ""
    /\ lastSpeak' = "ended"
    /\ UNCHANGED <<auxVars, user, editVars, displayVars, orchestratorVars, audioContextRef, contextRate,
                   contexts, speakCalls, speaks, feedbackTimers, events>>

\* copyToClipboard: a notice and a timeout that clears it
CopyToClipboard ==
    /\ user # NoUser
    /\ events < MaxEvents
    /\ events' = events + 1
    /\ feedback' = MsgCopied
    /\ feedbackTimers' = feedbackTimers + 1
    /\ UNCHANGED <<auxVars, user, editVars, displayVars, orchestratorVars, speakVars>>

\* setTimeout(() => setFeedback(''), 2000) fires
FeedbackTimeout ==
    /\ feedbackTimers > 0
    /\ feedbackTimers' = feedbackTimers - 1
    /\ feedback' = ""
    /\ UNCHANGED <<auxVars, user, editVars, displayVars, orchestratorVars, speakVars, events>>

SpeakNext ==
    \/ \E u \in Users : AuthStateChange(u)
    \/ \E v \in TypedTexts : SetSourceText(v)
    \/ \E ctxOk \in BOOLEAN : HandleSpeak(sourceText, ctxOk)
    \/ \E ctxOk \in BOOLEAN : HandleSpeak(targetText, ctxOk)
    \/ \E s \in speaks, bytes \in AudioPayloads, startOk \in BOOLEAN : TtsResolve(s, bytes, startOk)
    \/ \E s \in speaks : TtsReject(s)
    \/ \E src \in sources : PlaybackEnded(src)
    \/ CopyToClipboard
    \/ FeedbackTimeout

SpeakSpec == Init /\ [][SpeakNext]_vars

\* every TTS call settles and every started source ends
SpeakFairness ==
    /\ WF_vars(\E s \in speaks, bytes \in AudioPayloads, startOk \in BOOLEAN :
                   TtsResolve(s, bytes, startOk) \/ TtsReject(s))
    /\ WF_vars(\E src \in sources : PlaybackEnded(src))

LiveSpeakSpec == Init /\ [][SpeakNext]_vars /\ SpeakFairness

----------------------------------------------------------------------------
(* Claims about the translation orchestrator *)

TranslatePending == {r \in inflight : r.phase = "translate"}

\* C1: a translation response of request A that arrives after the response of
\* a request B issued later than A has been applied does not change the
\* displayed translation, detected language, alternatives and notes.
C1_StaleResponseLeavesDisplay ==
    [][\A r \in inflight :
          (r.id < maxApplied /\ TranslateResolve(r)) => UNCHANGED displayVars]_vars

\* C2: a handleTranslate call whose translation arrived when a later request
\* had already been issued writes no history: the backend inserts no row for
\* it and no entry is prepended to the history list.
C2_StaleResponseWritesNoHistory ==
    [][\A r \in inflight :
          r.stale => /\ (InsertExec(r) => db' = db)
                     /\ (InsertResolve(r) => history' = history)]_vars

\* C3: edits that arrive before the pending debounce timer fires issue no
\* request; at most one timer is pending and it carries the edit state of the
\* last edit (a superseded timer is never left pending); its firing issues
\* exactly one request, for that edit state, and leaves no timer behind.
C3_DebounceIssuesOneRequestForLastEdit ==
    [][/\ Cardinality(timers') <= 1
       /\ \A t \in timers' : t.st = EditState'
       /\ (EditState' # EditState => nextReq' = nextReq)
       /\ (nextReq' # nextReq =>
              /\ nextReq' = nextReq + 1
              /\ timers' = {}
              /\ \E r \in inflight' \ inflight :
                    r.id = nextReq /\ r.st = EditState /\ r.phase = "translate")]_vars

\* C3 witness: two edits after the login, then one request for the last edit
C3_Witness ==
    /\ events = 3
    /\ nextReq = 2
    /\ timers = {}
    /\ sourceText = "hello" /\ targetLang = "es"
    /\ \E r \in inflight : r.id = 1 /\ r.st = EditState

\* C4: while the source text is empty or whitespace-only no request has been
\* issued for it, no debounce timer is pending and the translation display
\* (translation, detected language, alternatives, notes) is cleared.
C4_EmptySourceKeepsDisplayCleared ==
    Trim(sourceText) = "" =>
        /\ Display = ClearedDisplay
        /\ timers = {}
        /\ \A r \in inflight : Trim(r.st.sourceText) # ""

\* C5 as stated: at most one translation request is awaiting its response.
C5_AtMostOneRequestInFlight == Cardinality(TranslatePending) <= 1

\* C5 amended: at most one of the requests awaiting their response was issued
\* since the last change of the source text, the settings or the identity.
C5_AtMostOneRequestPerEdit ==
    Cardinality({r \in TranslatePending : r.id \in issuedSinceEdit}) <= 1

\* C5 witness: two requests await their responses, one of them from before
\* the last edit
C5_Witness ==
    /\ Cardinality(TranslatePending) = 2
    /\ Cardinality({r \in TranslatePending : r.id \in issuedSinceEdit}) = 1

----------------------------------------------------------------------------
(* The history list against a backend that already holds a user's rows *)

\* a row stored by an earlier session of user u1
StoredRow(i) ==
    [id |-> i, created_at |-> i, user_id |-> "u1", source_text |-> "hello",
     translation_text |-> "hola", source_lang |-> "en", target_lang |-> "es",
     is_favorite |-> FALSE]

\* the backend holds 49 or 50 rows of u1, who signs in and out
HistInit ==
    /\ InitApp
    /\ InitFav
    /\ InitServices
    /\ \E n \in {HISTORY_LIMIT - 1, HISTORY_LIMIT} :
          /\ db = [i \in 1..n |-> StoredRow(i)]
          /\ nextRow = n + 1

HistNext ==
    \/ \E u \in {"u1", NoUser} : AuthStateChange(u)
    \/ \E v \in TypedTexts : SetSourceText(v)
    \/ \E v \in TargetLangs : SetTargetLang(v)
    \/ \E t \in timers : TimerFire(t)
    \/ \E r \in inflight : TranslateResolve(r)
    \/ \E r \in inflight : TranslateReject(r)
    \/ \E r \in inflight : InsertExec(r)
    \/ \E r \in inflight : InsertResolve(r)
    \/ \E r \in inflight : InsertError(r)
    \/ \E r \in inflight : InsertThrow(r)
    \/ \E f \in fetches : FetchExec(f)
    \/ \E f \in fetches : FetchResolve(f)
    \/ \E f \in fetches : FetchError(f)

HistSpec == HistInit /\ [][HistNext]_vars

----------------------------------------------------------------------------
(* Claims about speech playback and the history bound *)

\* the speak texts the two buttons pass
SpeakArgs == {sourceText, targetText}

\* C6: at most one playback session is active: the outstanding TTS requests
\* and the started audio sources together never number more than one.
C6_PlaybackExclusive == Cardinality(speaks) + Cardinality(sources) <= 1

\* C6 witness: a speak call was made while a source was playing, and rejected
C6_Witness ==
    /\ lastSpeak = "rejected_busy"
    /\ isSpeaking
    /\ Cardinality(sources) = 1

\* C7: a handleSpeak call that is rejected (empty text, or already speaking)
\* leaves the speaking flag, the notice and the audio context unchanged and
\* starts no TTS request.
C7_RejectedSpeakIsNoOp ==
    [][\A text \in SpeakArgs, ctxOk \in BOOLEAN :
          (SpeakRejected(text) /\ HandleSpeak(text, ctxOk)) =>
              UNCHANGED <<isSpeaking, feedback, audioContextRef, contextRate, contexts, speaks, sources>>]_vars

\* C7 witness: a call with empty text was rejected while a notice was shown
C7_Witness ==
    /\ lastSpeak = "rejected_empty"
    /\ feedback = MsgCopied
    /\ audioContextRef = 0

\* a step in which an accepted speak call fails: the AudioContext constructor
\* throws, or a pending TTS call ends without a started source
SpeakFailsStep ==
    \/ speakCalls' # speakCalls /\ lastSpeak' = "failed"
    \/ \E s \in speaks : s \notin speaks' /\ s.id \notin sources'

\* C8: a failing speak call clears the speaking flag and shows the failure
\* notice, and the speaking flag is never set without a pending TTS call or a
\* playing source.
C8_SpeakFailureReturnsToIdle ==
    [][/\ SpeakFailsStep => (~isSpeaking' /\ feedback' = MsgSpeechError)
       /\ isSpeaking' => (speaks' # {} \/ sources' # {})]_vars

\* C8 witness: a TTS call failed after its speak call was accepted
C8_Witness ==
    /\ lastSpeak = "failed"
    /\ audioContextRef # 0
    /\ ~isSpeaking
    /\ feedback = MsgSpeechError

\* C9: every accepted speak call eventually leaves the controller idle, and
\* the end of playback clears the speaking flag and the notice.
C9_SpeakEventuallyIdle ==
    /\ isSpeaking ~> (~isSpeaking /\ speaks = {} /\ sources = {})
    /\ [][(\E src \in sources : src \notin sources') =>
              (~isSpeaking' /\ feedback' = "")]_vars

\* C9 witness: playback ran to its end; the controller is idle again and the
\* notice is gone
C9_Witness ==
    /\ lastSpeak = "ended"
    /\ audioContextRef # 0
    /\ ~isSpeaking
    /\ speaks = {} /\ sources = {}
    /\ feedback = ""

NewestFirst(h) == \A i, j \in 1..Len(h) : i < j => h[i].timestamp > h[j].timestamp

\* C10: the history list never holds more than 50 entries; an append puts the
\* new entry first, keeps the others in order and, at 50 entries, drops the
\* last one, which is the oldest when the list is in creation order.
C10_HistoryBoundedOldestEvicted ==
    [][/\ Len(history') <= HISTORY_LIMIT
       /\ \A r \in inflight : InsertResolve(r) =>
             /\ history'[1].id = r.row
             /\ Len(history') = IF Len(history) < HISTORY_LIMIT
                                THEN Len(history) + 1 ELSE HISTORY_LIMIT
             /\ \A i \in 2..Len(history') : history'[i] = history[i - 1]
             /\ (Len(history) = HISTORY_LIMIT /\ NewestFirst(history)) =>
                    \A i \in 1..Len(history') :
                        history[HISTORY_LIMIT].timestamp < history'[i].timestamp]_vars

\* C10 witness: 51 entries created in order; ids 51..2 are listed, id 1 is gone
C10_Witness ==
    /\ Len(history) = HISTORY_LIMIT
    /\ history[1].id = HISTORY_LIMIT + 1
    /\ history[HISTORY_LIMIT].id = 2
    /\ Len(db) = HISTORY_LIMIT + 1

----------------------------------------------------------------------------
(* Order of the history list *)

\* C11: the history list is ordered newest first by creation instant in
\* every reachable state, whatever the order in which fetches and appends
\* complete.
C11_HistoryAlwaysNewestFirst == NewestFirst(history)

----------------------------------------------------------------------------
(* Exit paths of handleTranslate *)

\* C15: once every issued request has settled (resolved, rejected, insert
\* error or insert exception) the loading indicator is off.
C15_LoadingClearedWhenSettled == (inflight = {}) => ~loading

\* C15 witness: two requests were issued and both have settled, the second
\* one without a stored row
C15_Witness ==
    /\ nextReq = 3
    /\ inflight = {}
    /\ Len(db) = 1
    /\ ~loading

\* C16: a step in which translateText rejects sets the failure notice, leaves
\* the displayed translation, detected language, notes and alternatives as
\* they were, and adds nothing to the history list or to the backend table.
C16_FailedTranslationKeepsDisplay ==
    [][\A r \in inflight : TranslateReject(r) =>
          /\ feedback' = MsgTranslateError
          /\ UNCHANGED displayVars
          /\ history' = history
          /\ db' = db]_vars

\* C16 witness: the first request was applied and stored, the second one was
\* rejected: its notice is shown over the translation of the first
C16_Witness ==
    /\ nextReq = 3
    /\ inflight = {}
    /\ maxApplied = 1
    /\ Len(db) = 1
    /\ feedback = MsgTranslateError
    /\ targetText # ""

\* C17: a failing insert (error returned or exception thrown) and a failing
\* fetch change neither the notice nor the translation display.
C17_PersistenceFailureIsSilent ==
    [][/\ \A r \in inflight : (InsertError(r) \/ InsertThrow(r)) =>
              (feedback' = feedback /\ UNCHANGED displayVars)
       /\ \A f \in fetches : FetchError(f) =>
              (feedback' = feedback /\ UNCHANGED displayVars)]_vars

----------------------------------------------------------------------------
(* Identity changes *)

\* C18: a step that changes the identity leaves the translation display
\* empty, and a request issued under another identity than the current one
\* writes neither the display nor the history list when it completes.
C18_IdentityChangeClearsState ==
    [][/\ (user' # user) => (targetText' = "" /\ detectedLang' = "" /\ notes' = ""
                               /\ alternatives' = <<>>)
       /\ \A r \in inflight : (r.st.user # user) =>
              /\ TranslateResolve(r) => UNCHANGED displayVars
              /\ InsertResolve(r) => history' = history]_vars

\* the identity under which the row of a history entry was created
RowOwner(id) == db[CHOOSE i \in 1..Len(db) : db[i].id = id].user_id

\* C19: every entry of the history list was created under the current
\* identity; with no identity the list is empty.
C19_HistoryOfCurrentIdentityOnly ==
    /\ \A i \in 1..Len(history) : RowOwner(history[i].id) = user
    /\ (user = NoUser) => (history = <<>>)

----------------------------------------------------------------------------
(* toggleFavorite *)

\* update({is_favorite: val}).eq('id', id) on the backend table
UpdateFavorite(rows, id, val) ==
    [i \in 1..Len(rows) |->
        IF rows[i].id = id THEN [rows[i] EXCEPT !.is_favorite = val] ELSE rows[i]]

\* an updater that sets the flag of every entry
MapFavoriteAll(prev, id, val) ==
    [i \in 1..Len(prev) |-> [prev[i] EXCEPT !.is_favorite = val]]

\* prev.map(item => item.id === id ? {...item, is_favorite: val} : item)
MapFavorite(prev, id, val) ==
    [i \in 1..Len(prev) |->
        IF prev[i].id = id THEN [prev[i] EXCEPT !.is_favorite = val] ELSE prev[i]]

\* one more or one fewer toggle of the entry `id`
Flip(ids, id) == IF id \in ids THEN ids \ {id} ELSE ids \cup {id}

\* the star button of the i-th entry: toggleFavorite(item.id, item.is_favorite
\* || false) up to its await; the new value is computed from the rendered entry
ToggleFavorite(i) ==
    /\ user # NoUser
    /\ events < MaxEvents
    /\ i \in 1..Len(history)
    /\ events' = events + 1
    /\ toggles' = toggles \cup {[id |-> events + 1, item |-> history[i].id,
                                   val |-> ~history[i].is_favorite, phase |-> "sent"]}
    /\ favFlips' = Flip(favFlips, history[i].id)
    /\ UNCHANGED <<serviceVars, clears, user, editVars, displayVars, orchestratorVars, speakVars,
                   feedback, feedbackTimers>>

\* the backend executes the update
ToggleExec(t) ==
    /\ t \in toggles
    /\ t.phase = "sent"
    /\ db' = UpdateFavorite(db, t.item, t.val)
    /\ toggles' = (toggles \ {t}) \cup {[t EXCEPT !.phase = "done"]}
    /\ UNCHANGED <<serviceVars, clears, favFlips, user, editVars, displayVars, loading, history,
                   timerVars, inflight, nextReq, nextRow, fetches, logoutPending, maxApplied,
                   issuedSinceEdit, speakVars, feedback, feedbackTimers, events>>

\* the update returned without error: the entry of the list gets the new value
ToggleResolve(t) ==
    /\ t \in toggles
    /\ t.phase = "done"
    /\ history' = MapFavorite(history, t.item, t.val)
    /\ toggles' = toggles \ {t}
    /\ UNCHANGED <<serviceVars, clears, favFlips, user, editVars, displayVars, loading, timerVars,
                   inflight, nextReq, backendVars, fetches, logoutPending, maxApplied,
                   issuedSinceEdit, speakVars, feedback, feedbackTimers, events>>

\* an optimistic handler that changes the list although the update failed
ToggleErrorApplies(t) ==
    /\ t \in toggles
    /\ t.phase = "sent"
    /\ toggles' = toggles \ {t}
    /\ favFlips' = Flip(favFlips, t.item)
    /\ history' = MapFavorite(history, t.item, t.val)
    /\ UNCHANGED <<serviceVars, clears, user, editVars, displayVars, loading, timerVars,
                   inflight, nextReq, backendVars, fetches, logoutPending, maxApplied,
                   issuedSinceEdit, speakVars, feedback, feedbackTimers, events>>

\* the update returned an error or threw: nothing changes, the toggle did
\* not take place
ToggleError(t) ==
    /\ t \in toggles
    /\ t.phase = "sent"
    /\ toggles' = toggles \ {t}
    /\ favFlips' = Flip(favFlips, t.item)
    /\ UNCHANGED <<serviceVars, clears, user, editVars, displayVars, orchestratorVars, speakVars,
                   feedback, feedbackTimers, events>>

----------------------------------------------------------------------------
(* clearAllHistory *)

RECURSIVE DeleteRows(_, _)
\* delete().eq('user_id', u) on the backend table
DeleteRows(rows, u) ==
    IF rows = <<>> THEN <<>>
    ELSE IF Head(rows).user_id = u
         THEN DeleteRows(Tail(rows), u)
         ELSE <<Head(rows)>> \o DeleteRows(Tail(rows), u)

\* the "clear" button, the confirm dialog answered with OK: clearAllHistory
\* up to its await
ClearAllHistory ==
    /\ user # NoUser
    /\ events < MaxEvents
    /\ events' = events + 1
    /\ clears' = clears \cup {[id |-> events + 1, user |-> user, phase |-> "sent"]}
    /\ UNCHANGED <<serviceVars, toggles, favFlips, user, editVars, displayVars,
                   orchestratorVars, speakVars, feedback, feedbackTimers>>

\* the "clear" button, the confirm dialog answered with Cancel
ClearDeclined ==
    /\ user # NoUser
    /\ events < MaxEvents
    /\ events' = events + 1
    /\ UNCHANGED <<auxVars, user, editVars, displayVars, orchestratorVars, speakVars,
                   feedback, feedbackTimers>>

\* the backend executes the delete
ClearExec(c) ==
    /\ c \in clears
    /\ c.phase = "sent"
    /\ db' = DeleteRows(db, c.user)
    /\ clears' = (clears \ {c}) \cup {[c EXCEPT !.phase = "done"]}
    /\ UNCHANGED <<serviceVars, toggles, favFlips, user, editVars, displayVars, loading,
                   history, timerVars, inflight, nextReq, nextRow, fetches, logoutPending,
                   maxApplied, issuedSinceEdit, speakVars, feedback, feedbackTimers, events>>

\* the delete returned without error: the list is emptied and a notice shown
\* for two seconds
ClearResolve(c) ==
    /\ c \in clears
    /\ c.phase = "done"
    /\ clears' = clears \ {c}
    /\ history' = <<>>
    /\ feedback' = MsgHistoryCleared
    /\ feedbackTimers' = feedbackTimers + 1
    /\ UNCHANGED <<serviceVars, toggles, favFlips, user, editVars, displayVars, loading,
                   timerVars, inflight, nextReq, backendVars, fetches, logoutPending,
                   maxApplied, issuedSinceEdit, speakVars, events>>

\* the delete returned an error or threw: nothing changes
ClearError(c) ==
    /\ c \in clears
    /\ c.phase = "sent"
    /\ clears' = clears \ {c}
    /\ UNCHANGED <<serviceVars, toggles, favFlips, user, editVars, displayVars,
                   orchestratorVars, speakVars, feedback, feedbackTimers, events>>

\* the backend holds three rows of u1, the second one a favorite; u1 signs in
\* and out
FavInit ==
    /\ InitApp
    /\ InitFav
    /\ InitServices
    /\ db = <<StoredRow(1), [StoredRow(2) EXCEPT !.is_favorite = TRUE], StoredRow(3)>>
    /\ nextRow = 4

FavNext ==
    \/ \E u \in {"u1", NoUser} : AuthStateChange(u)
    \/ \E f \in fetches : FetchExec(f)
    \/ \E f \in fetches : FetchResolve(f)
    \/ \E f \in fetches : FetchError(f)
    \/ \E i \in 1..Len(history) : ToggleFavorite(i)
    \/ \E t \in toggles : ToggleExec(t)
    \/ \E t \in toggles : ToggleResolve(t)
    \/ \E t \in toggles : ToggleError(t)
    \/ ClearAllHistory
    \/ ClearDeclined
    \/ \E c \in clears : ClearExec(c)
    \/ \E c \in clears : ClearResolve(c)
    \/ \E c \in clears : ClearError(c)
    \/ FeedbackTimeout

FavSpec == FavInit /\ [][FavNext]_vars

\* the favorite value the entry `id` had when the list was fetched
OriginalFavorite(id) == (id = 2)

\* C12: once no toggle is pending, an entry toggled an even number of times
\* has its original favorite value and an entry toggled an odd number of
\* times has the opposite one, also when a toggle was requested before the
\* previous one had completed.
C12_ToggleTwiceRestoresFavorite ==
    (toggles = {}) =>
        \A i \in 1..Len(history) :
            history[i].is_favorite = (OriginalFavorite(history[i].id) # (history[i].id \in favFlips))

----------------------------------------------------------------------------
(* parseGeminiResponse *)

MaxWrap == 1

\* A response text is a sequence of tokens: "{", "}" and "," are the JSON
\* punctuation, a key token stands for a quoted key with its colon, "v" for a
\* string literal, "w" for a word of prose and "fence" for a
\* markdown code fence line.
Keys == {"detected_language", "source_language", "translation", "tts", "speak_text"}
RequiredFields == {"detected_language", "source_language", "translation", "tts"}

ParseFail == [ok |-> FALSE, next |-> 0, value |-> NullValue]

RECURSIVE ParseValue(_, _)
RECURSIVE ParseMembers(_, _, _)

\* the JSON value that starts at token i
ParseValue(toks, i) ==
    IF i > Len(toks) THEN ParseFail
    ELSE IF toks[i] = "v" THEN [ok |-> TRUE, next |-> i + 1, value |-> StringValue]
    ELSE IF toks[i] = "{"
         THEN IF i + 1 <= Len(toks) /\ toks[i + 1] = "}"
              THEN [ok |-> TRUE, next |-> i + 2, value |-> ObjectValue({})]
              ELSE ParseMembers(toks, i + 1, {})
         ELSE ParseFail

\* the members of an object from token i on; a repeated key replaces the
\* earlier member
ParseMembers(toks, i, acc) ==
    IF i > Len(toks) \/ toks[i] \notin Keys THEN ParseFail
    ELSE LET v == ParseValue(toks, i + 1)
             acc2 == {m \in acc : m.key # toks[i]} \cup {[key |-> toks[i], value |-> v.value]}
         IN  IF ~v.ok \/ v.next > Len(toks) THEN ParseFail
             ELSE IF toks[v.next] = "}"
                  THEN [ok |-> TRUE, next |-> v.next + 1, value |-> ObjectValue(acc2)]
                  ELSE IF toks[v.next] = ","
                       THEN ParseMembers(toks, v.next + 1, acc2)
                       ELSE ParseFail

\* JSON.parse: the whole text has to be one value
JsonParse(toks) ==
    LET r == ParseValue(toks, 1)
    IN  IF r.ok /\ r.next = Len(toks) + 1
        THEN [ok |-> TRUE, value |-> r.value]
        ELSE [ok |-> FALSE, value |-> NullValue]

\* a non-greedy match: from the first "{" to the first "}" after it
MatchBracesLazy(text) ==
    LET opens == {i \in 1..Len(text) : text[i] = "{"}
    IN  IF opens = {} THEN <<>>
        ELSE LET first == CHOOSE i \in opens : \A j \in opens : i <= j
                 closes == {j \in first + 1..Len(text) : text[j] = "}"}
             IN  IF closes = {} THEN <<>>
                 ELSE SubSeq(text, first, CHOOSE j \in closes : \A k \in closes : j <= k)

\* text.match(/\{[\s\S]*\}/): from the first "{" to the last "}" after it,
\* <<>> when there is no match
MatchBraces(text) ==
    LET opens == {i \in 1..Len(text) : text[i] = "{"}
    IN  IF opens = {} THEN <<>>
        ELSE LET first == CHOOSE i \in opens : \A j \in opens : i <= j
                 closes == {j \in first + 1..Len(text) : text[j] = "}"}
             IN  IF closes = {} THEN <<>>
                 ELSE SubSeq(text, first, CHOOSE j \in closes : \A k \in closes : j >= k)

ParseError(msg) == [status |-> "error", value |-> NullValue, error |-> msg]
Parsed(v) == [status |-> "ok", value |-> v, error |-> ""]

ParseGeminiResponse(text) ==
    IF text = <<>> THEN ParseError("Empty response from AI")
    ELSE IF JsonParse(text).ok THEN Parsed(JsonParse(text).value)
    ELSE IF MatchBraces(text) # <<>> /\ JsonParse(MatchBraces(text)).ok
         THEN Parsed(JsonParse(MatchBraces(text)).value)
         ELSE ParseError("Invalid translation response format")

\* the texts the remote capability may answer with
Member(k, v) == <<k>> \o v
TtsObject == <<"{", "speak_text", "v", "}">>
FullObject ==
    <<"{">> \o Member("detected_language", <<"v">>) \o <<",">>
            \o Member("source_language", <<"v">>) \o <<",">>
            \o Member("translation", <<"v">>) \o <<",">>
            \o Member("tts", TtsObject) \o <<"}">>
Cores ==
    { FullObject,
      <<"{">> \o Member("source_language", <<"v">>) \o <<",">>
              \o Member("translation", <<"v">>) \o <<",">>
              \o Member("tts", TtsObject) \o <<"}">>,
      <<"{">> \o Member("detected_language", <<"v">>) \o <<",">>
              \o Member("translation", <<"v">>) \o <<",">>
              \o Member("tts", TtsObject) \o <<"}">>,
      <<"{">> \o Member("detected_language", <<"v">>) \o <<",">>
              \o Member("source_language", <<"v">>) \o <<",">>
              \o Member("tts", TtsObject) \o <<"}">>,
      <<"{">> \o Member("detected_language", <<"v">>) \o <<",">>
              \o Member("source_language", <<"v">>) \o <<",">>
              \o Member("translation", <<"v">>) \o <<"}">>,
      <<"{", "}">>,
      <<"v">>,
      SubSeq(FullObject, 1, Len(FullObject) - 1),
      <<"{", "translation", "v", ",", "}">>,
      <<>> }

WrapTokens == {"w", "fence", "{", "}"}
Wraps == UNION {[1..n -> WrapTokens] : n \in 0..MaxWrap}

ParseInit ==
    /\ InitApp
    /\ InitFav
    /\ InitDecoder
    /\ db = <<>>
    /\ nextRow = 1
    /\ \E pre \in Wraps, core \in Cores, post \in Wraps : responseText = pre \o core \o post
    /\ parseResult = NotParsed

\* translateText line 97: return parseGeminiResponse(response.text)
ParseResponse ==
    /\ parseResult = NotParsed
    /\ parseResult' = ParseGeminiResponse(responseText)
    /\ UNCHANGED <<favVars, responseText, pcmData, pcmChannels, audioBuffer, user, editVars,
                   displayVars, orchestratorVars, speakVars, feedback, feedbackTimers, events>>

ParseNext == ParseResponse

ParseSpec == ParseInit /\ [][ParseNext]_vars

HasField(v, k) == \E m \in v.members : m.key = k
Field(v, k) == (CHOOSE m \in v.members : m.key = k).value

\* C13: a payload is accepted only if it is an object that has the fields
\* detected_language, source_language and translation and a tts sub-object.
C13_MissingRequiredFieldRejected ==
    (parseResult.status = "ok") =>
        /\ parseResult.value.kind = "object"
        /\ \A k \in RequiredFields : HasField(parseResult.value, k)
        /\ Field(parseResult.value, "tts").kind = "object"

\* the substring from the first opening brace to the last closing brace
OutermostBraces(text) ==
    LET o == {i \in 1..Len(text) : text[i] = "{"}
        c == {i \in 1..Len(text) : text[i] = "}"}
    IN  IF o = {} \/ c = {} THEN <<>>
        ELSE LET a == CHOOSE i \in o : \A j \in o : i <= j
                 b == CHOOSE i \in c : \A j \in c : i >= j
             IN  IF a < b THEN SubSeq(text, a, b) ELSE <<>>

\* what the validation policy prescribes for a text
PolicyResult(text) ==
    IF text = <<>> THEN "error"
    ELSE IF JsonParse(text).ok THEN "direct"
    ELSE IF OutermostBraces(text) # <<>> /\ JsonParse(OutermostBraces(text)).ok
         THEN "substring"
         ELSE "error"

\* the direct parse comes first, the brace-delimited substring second, and
\* an error is the outcome when both fail or the text is empty
ParseFollowsPolicy ==
    /\ PolicyResult(responseText) = "direct" =>
           parseResult = Parsed(JsonParse(responseText).value)
    /\ PolicyResult(responseText) = "substring" =>
           parseResult = Parsed(JsonParse(OutermostBraces(responseText)).value)
    /\ PolicyResult(responseText) = "error" =>
           (parseResult.status = "error" /\ parseResult.value = NullValue)

\* a well-formed object wrapped in `pre` and `post` gives the result of the
\* object alone
WrappedGivesSame(wraps) ==
    \A pre \in wraps, post \in wraps, core \in Cores :
        (/\ responseText = pre \o core \o post
         /\ JsonParse(core).ok
         /\ JsonParse(core).value.kind = "object") =>
            parseResult = Parsed(JsonParse(core).value)

\* C14 as stated: the policy is followed and a well-formed object is accepted
\* with the same result whatever prose or fence is wrapped around it.
C14_WrappedObjectAccepted ==
    (parseResult # NotParsed) => (ParseFollowsPolicy /\ WrappedGivesSame(Wraps))

BraceFree(w) == \A i \in 1..Len(w) : w[i] \notin {"{", "}"}

\* C14: the policy is followed, and a well-formed object is accepted with the
\* same result when the prose or fence wrapped around it contains no brace.
C14_BraceFreeWrappingAccepted ==
    (parseResult # NotParsed) =>
        (ParseFollowsPolicy /\ WrappedGivesSame({w \in Wraps : BraceFree(w)}))

\* C14 witness: the complete object inside a code fence was accepted through
\* the substring attempt
C14_Witness ==
    /\ responseText = <<"fence">> \o FullObject \o <<"fence">>
    /\ parseResult = Parsed(JsonParse(FullObject).value)
    /\ ~JsonParse(responseText).ok

----------------------------------------------------------------------------
(* decodeAudioData *)

MaxBytes == 4

Bytes == {0, 1, 127, 128, 255}
ChannelCounts == {1, 2}

\* element k (from 0) of new Int16Array(data.buffer), little-endian
Int16At(data, k) ==
    LET u == data[2 * k + 1] + 256 * data[2 * k + 2]
    IN  IF u >= 32768 THEN u - 65536 ELSE u

DecodeError(name) == [status |-> "error", channels |-> <<>>, error |-> name]

\* A sample is the pair <<n, 32768>> for the quotient n / 32768.0.  The
\* Int16Array constructor needs an even byte length, createBuffer truncates
\* frameCount and rejects a length of zero frames.
DecodeAudioData(data, numChannels) ==
    IF Len(data) % 2 # 0 THEN DecodeError("RangeError")
    ELSE LET frames == (Len(data) \div 2) \div numChannels
         IN  IF frames = 0 THEN DecodeError("NotSupportedError")
             ELSE [status |-> "ok",
                   channels |-> [c \in 1..numChannels |->
                                   [i \in 1..frames |->
                                      <<Int16At(data, (i - 1) * numChannels + (c - 1)), 32768>>]],
                   error |-> ""]

DecodeInit ==
    /\ InitApp
    /\ InitFav
    /\ InitParser
    /\ db = <<>>
    /\ nextRow = 1
    /\ pcmData \in UNION {[1..n -> Bytes] : n \in 0..MaxBytes}
    /\ pcmChannels \in ChannelCounts
    /\ audioBuffer = NotDecoded

\* handleSpeak line 211: await decodeAudioData(decode(base64), ctx, 24000, 1)
Decode ==
    /\ audioBuffer = NotDecoded
    /\ audioBuffer' = DecodeAudioData(pcmData, pcmChannels)
    /\ UNCHANGED <<favVars, responseText, parseResult, pcmData, pcmChannels, user, editVars,
                   displayVars, orchestratorVars, speakVars, feedback, feedbackTimers, events>>

DecodeNext == Decode

DecodeSpec == DecodeInit /\ [][DecodeNext]_vars

\* C20: for a byte length that is a multiple of 2 * channelCount, 0 included,
\* decode returns channelCount arrays of (length / 2) / channelCount samples,
\* sample i of channel c being the 16-bit sample i * channelCount + c over
\* 32768, which lies in [-1, 1).
C20_DecodeTotalOnWholeFrames ==
    (audioBuffer # NotDecoded /\ Len(pcmData) % (2 * pcmChannels) = 0) =>
        /\ audioBuffer.status = "ok"
        /\ Len(audioBuffer.channels) = pcmChannels
        /\ \A c \in 1..Len(audioBuffer.channels) :
              /\ Len(audioBuffer.channels[c]) = (Len(pcmData) \div 2) \div pcmChannels
              /\ \A i \in 1..Len(audioBuffer.channels[c]) :
                    /\ audioBuffer.channels[c][i] =
                           <<Int16At(pcmData, (i - 1) * pcmChannels + (c - 1)), 32768>>
                    /\ audioBuffer.channels[c][i][1] >= -32768
                    /\ audioBuffer.channels[c][i][1] < 32768

\* C21: an input that ends in a partial frame (an odd byte length, or a
\* number of 16-bit samples that is no multiple of channelCount) is decoded
\* without error into floor(samples / channelCount) frames per channel.
C21_PartialFrameDropped ==
    (/\ audioBuffer # NotDecoded
     /\ \/ Len(pcmData) % 2 # 0
        \/ (Len(pcmData) \div 2) % pcmChannels # 0) =>
        /\ audioBuffer.status = "ok"
        /\ Len(audioBuffer.channels) = pcmChannels
        /\ \A c \in 1..Len(audioBuffer.channels) :
              Len(audioBuffer.channels[c]) = (Len(pcmData) \div 2) \div pcmChannels

----------------------------------------------------------------------------
(* The shared AudioContext *)

\* a step of handleSpeak that got past its guard
SpeakAcceptedStep == speakCalls' # speakCalls /\ lastSpeak' \in {"accepted", "accepted_reuse"}

\* C22: at most one AudioContext is ever constructed.  There is none until a
\* handleSpeak call gets past its guard; the call that finds none constructs
\* it at 24 kHz, and once it exists every step, later speak calls included,
\* leaves it in place.
C22_AudioContextCreatedOnce ==
    [][/\ contexts' <= 1
       /\ (audioContextRef' # audioContextRef) =>
             /\ SpeakAcceptedStep
             /\ audioContextRef = 0
             /\ contexts = 0
             /\ audioContextRef' = 1
             /\ contextRate' = SAMPLE_RATE
       /\ (audioContextRef # 0) => (contextRate' = SAMPLE_RATE /\ contexts' = contexts)
       /\ SpeakAcceptedStep => (audioContextRef' # 0 /\ contextRate' = SAMPLE_RATE)]_vars

\* C22 witness: the second speak call was accepted and runs on the context
\* the first one constructed
C22_Witness ==
    /\ speakCalls = 2
    /\ lastSpeak = "accepted_reuse"
    /\ contexts = 1
    /\ audioContextRef = 1
    /\ contextRate = SAMPLE_RATE
    /\ isSpeaking

----------------------------------------------------------------------------
(* handleTranslate applied to what parseGeminiResponse returns *)

\* a property of the parsed value read by handleTranslate: the text of a
\* string member, Undefined for anything else
Undefined == "undefined"
Property(v, k) ==
    IF v.kind = "object" /\ (\E m \in v.members : m.key = k /\ m.value.kind = "string")
    THEN "text"
    ELSE Undefined

\* translateText returns for the request r: parseGeminiResponse(response.text)
TranslateTextReturns(r) ==
    /\ r \in inflight
    /\ r.phase = "translate"
    /\ ParseResponse

\* parseGeminiResponse returned: lines 165-168 show the result, lines 171-181
\* send the insert
TranslateResolveParsed(r) ==
    /\ r \in inflight
    /\ r.phase = "translate"
    /\ parseResult.status = "ok"
    /\ SetDisplay([targetText |-> Property(parseResult.value, "translation"),
                   detectedLang |-> Property(parseResult.value, "detected_language"),
                   notes |-> Property(parseResult.value, "notes"),
                   alternatives |-> <<>>])
    /\ inflight' = (inflight \ {r}) \cup {[r EXCEPT !.phase = "insert"]}
    /\ maxApplied' = Max(maxApplied, r.id)
    /\ UNCHANGED <<auxVars, user, editVars, loading, history, feedback, timerVars, nextReq,
                   backendVars, fetches, speakVars, feedbackTimers, events, logoutPending,
                   issuedSinceEdit>>

\* parseGeminiResponse threw: translateText rejects
TranslateRejectParsed(r) ==
    /\ parseResult.status = "error"
    /\ TranslateReject(r)

NewRowParsed(r) ==
    [id |-> nextRow, created_at |-> nextRow, user_id |-> r.st.user,
     source_text |-> r.st.sourceText,
     translation_text |-> Property(parseResult.value, "translation"),
     source_lang |-> Property(parseResult.value, "detected_language"),
     target_lang |-> Property(parseResult.value, "target_language"),
     is_favorite |-> FALSE]

\* the backend executes the insert of the parsed result
InsertExecParsed(r) ==
    /\ r \in inflight
    /\ r.phase = "insert"
    /\ db' = Append(db, NewRowParsed(r))
    /\ nextRow' = nextRow + 1
    /\ inflight' = (inflight \ {r}) \cup {[r EXCEPT !.phase = "inserted", !.row = nextRow]}
    /\ UNCHANGED <<auxVars, user, editVars, displayVars, loading, history, feedback, timerVars,
                   nextReq, fetches, speakVars, feedbackTimers, events, logoutPending,
                   maxApplied, issuedSinceEdit>>

\* the insert response arrives: the entry built from the parsed result is
\* prepended
InsertResolveParsed(r) ==
    /\ r \in inflight
    /\ r.phase = "inserted"
    /\ history' = PrependHistory(history,
                      [id |-> r.row, timestamp |-> r.row, sourceText |-> r.st.sourceText,
                       translation |-> Property(parseResult.value, "translation"),
                       sourceLang |-> Property(parseResult.value, "detected_language"),
                       targetLang |-> Property(parseResult.value, "target_language"),
                       is_favorite |-> FALSE])
    /\ loading' = FALSE
    /\ inflight' = inflight \ {r}
    /\ UNCHANGED <<auxVars, user, editVars, displayVars, feedback, timerVars, nextReq,
                   backendVars, fetches, speakVars, feedbackTimers, events, logoutPending,
                   maxApplied, issuedSinceEdit>>

\* u1 signs in and types "hello"; the remote capability answers the one
\* request with the text drawn by ParseInit
ApplyNext ==
    \/ AuthStateChange("u1")
    \/ SetSourceText("hello")
    \/ \E t \in timers : TimerFire(t)
    \/ \E r \in inflight : TranslateTextReturns(r)
    \/ \E r \in inflight : TranslateResolveParsed(r)
    \/ \E r \in inflight : TranslateRejectParsed(r)
    \/ \E r \in inflight : InsertExecParsed(r)
    \/ \E r \in inflight : InsertResolveParsed(r)
    \/ \E r \in inflight : InsertError(r)

ApplySpec == ParseInit /\ [][ApplyNext]_vars

\* C23: a translation that was applied to the display or stored in a history
\* entry is a non-empty text.
C23_AppliedTranslationNonEmpty ==
    /\ (maxApplied > 0) => (targetText \notin {"", Undefined})
    /\ \A i \in 1..Len(history) : history[i].translation \notin {"", Undefined}

----------------------------------------------------------------------------
(* Frame of toggleFavorite and clearAllHistory *)

\* two lists (or tables) that differ at most in the favorite flag of the
\* entries with the given id
SameButFavorite(old, new, id) ==
    /\ Len(new) = Len(old)
    /\ \A i \in 1..Len(old) :
          IF old[i].id = id
          THEN [new[i] EXCEPT !.is_favorite = old[i].is_favorite] = old[i]
          ELSE new[i] = old[i]

\* a toggle touches nothing but the favorite flag of its entry, in the list
\* and in the backend table
ToggleFrame ==
    \A t \in toggles :
        /\ ToggleResolve(t) => SameButFavorite(history, history', t.item)
        /\ ToggleExec(t) => SameButFavorite(db, db', t.item)

\* some entry of the list is missing after the step
EntryRemoved == \E i \in 1..Len(history) : \A j \in 1..Len(history') : history'[j].id # history[i].id

\* the step is an append to a full list, or the completion of a clear-all
EvictionOrClear ==
    \/ \E r \in inflight : InsertResolve(r) /\ Len(history) = HISTORY_LIMIT
    \/ \E c \in clears : ClearResolve(c)

\* the step resets the list for a changed identity or replaces it with
\* fetched rows
ResetOrRefetch ==
    \/ user' # user
    \/ \E f \in fetches : FetchResolve(f)

\* C24 as stated: a toggle changes only the favorite flag of its entry, and
\* an entry leaves the list only by eviction past 50 or by a clear-all.
C24_OnlyEvictionOrClearRemoves ==
    [][ToggleFrame /\ (EntryRemoved => EvictionOrClear)]_vars

\* C24: a toggle changes only the favorite flag of its entry, and an entry
\* leaves the list only by eviction past 50, by a clear-all, by the reset on
\* an identity change or by a fetch that replaces the list.
C24_ToggleChangesOnlyFavorite ==
    [][ToggleFrame /\ (EntryRemoved => (EvictionOrClear \/ ResetOrRefetch))]_vars

\* C24 witness: the favorite entry 2 was toggled; the list still has its three
\* entries in order and entries 3 and 1 are as they were fetched
C24_Witness ==
    /\ toggles = {}
    /\ favFlips = {2}
    /\ Len(history) = 3
    /\ history[1] = MapRow(StoredRow(3))
    /\ history[2] = [MapRow(StoredRow(2)) EXCEPT !.is_favorite = FALSE]
    /\ history[3] = MapRow(StoredRow(1))
    /\ db[2].is_favorite = FALSE

\* C29: the list is left as it is by the click that sends an update or a
\* delete, by a failing update, by a failing delete and by a declined
\* confirmation; a toggle or clear-all changes it only in the step in which
\* the backend's success arrives.
C29_HistoryChangedOnlyAfterSuccess ==
    [][/\ (\E i \in 1..Len(history) : ToggleFavorite(i)) => history' = history
       /\ (ClearAllHistory \/ ClearDeclined) => history' = history
       /\ \A t \in toggles : (ToggleExec(t) \/ ToggleError(t)) => history' = history
       /\ \A c \in clears : (ClearExec(c) \/ ClearError(c)) => history' = history
       /\ (history' # history) =>
             \/ \E t \in toggles : t.phase = "done" /\ ToggleResolve(t)
             \/ \E c \in clears : c.phase = "done" /\ ClearResolve(c)
             \/ ResetOrRefetch]_vars

\* C29 witness: after the sign-in one click was handled, on the star or on
\* "clear", and it failed or was declined: the list and the table are as fetched
C29_Witness ==
    /\ user = "u1"
    /\ events = 2
    /\ toggles = {}
    /\ clears = {}
    /\ fetches = {}
    /\ favFlips = {}
    /\ history = MapRows(SelectHistory(db, "u1"))
    /\ db = <<StoredRow(1), [StoredRow(2) EXCEPT !.is_favorite = TRUE], StoredRow(3)>>

----------------------------------------------------------------------------
(* Requests, the loading indicator and the identity *)

\* C25: every request that was issued has a concrete target language, never
\* "auto", and a non-empty target country.
C25_RequestTargetConcrete ==
    \A r \in inflight : r.st.targetLang # "auto" /\ r.st.targetCountry # ""

\* C26: the loading indicator is on whenever a translation request is in
\* flight.
C26_LoadingWhileInFlight == (inflight # {}) => loading

\* C27: no two entries of the history list have the same id.
C27_HistoryIdsDistinct ==
    \A i, j \in 1..Len(history) : (i # j) => history[i].id # history[j].id

\* C28: a step that issues a translation request or sends a history insert
\* is taken only while an identity is present.
C28_NothingIssuedWithoutIdentity ==
    [][/\ (nextReq' # nextReq) => user # NoUser
       /\ \A r \in inflight : TranslateResolve(r) => user # NoUser]_vars

\* C30: the entry a request appends holds the source text that was sent with
\* that request and the translation returned for it, whatever the source
\* field holds by then, and the list grows by at most that one entry.
C30_EntryPairsRequestWithItsResult ==
    [][\A r \in inflight : InsertResolve(r) =>
          /\ history'[1].id = r.row
          /\ history'[1].sourceText = r.st.sourceText
          /\ history'[1].translation = Translate(r.st.sourceText, r.st.targetLang)
          /\ Len(history') <= Len(history) + 1
          /\ \A i \in 2..Len(history') : history'[i] = history[i - 1]]_vars

\* C30 witness: "hello" was sent and the field was emptied before the answer
\* came: the answer is on display over the empty field and the one entry pairs
\* "hello" with its translation
C30_Witness ==
    /\ sourceText = ""
    /\ targetText = Translate("hello", "en")
    /\ inflight = {}
    /\ Len(history) = 1
    /\ history[1].sourceText = "hello"
    /\ history[1].translation = Translate("hello", "en")

====
